---- MODULE Spec2Model ----
(***************************************************************************)
(* A model of rcat: the argument parser (cli/args.rs), the canned messages *)
(* (cli/output.rs), the process invoker (app/cmd.rs), the handler          *)
(* (app/handler.rs), exit_with_err (cli/exit.rs) and the entry point       *)
(* (main.rs).                                                              *)
(*                                                                         *)
(* Rust Strings are TLA+ strings; TLC evaluates Len, SubSeq and \o on them *)
(* character by character, so starts_with, contains, join and concat are   *)
(* computed on the text itself.  A Vec<String> is a sequence of strings.   *)
(* A Vec<u8> captured from the child is a record [bytes, utf8]: the text   *)
(* it spells and whether the byte string is well-formed UTF-8.             *)
(***************************************************************************)
EXTENDS Integers, Sequences, FiniteSets, TLC

(***************************************************************************)
(* Bounds and input sets.                                                  *)
(***************************************************************************)

\* Longest raw argument list (element 0, the program name, included).
MaxArgs == 3

\* Longest stderr text of the child, counted in fragments of StderrFragments.
MaxStderrParts == 2

\* The tokens a raw argument is drawn from: names and paths, the two help
\* flags, unrecognized options, a bare dash and the empty string.
Tokens == {"rcat", "/path/1", "/path/2", "-h", "--help", "-e", "-j", "-", ""}

\* All sequences over S of length exactly n / at most n.
RECURSIVE SeqsOfLen(_, _)
SeqsOfLen(S, n) ==
    IF n = 0 THEN {<<>>}
    ELSE {Append(s, x) : s \in SeqsOfLen(S, n - 1), x \in S}

SeqsUpTo(S, n) == UNION {SeqsOfLen(S, k) : k \in 0..n}

ArgLists == SeqsUpTo(Tokens, MaxArgs)

\* Pieces the child's stderr text is made of.  The match in exec is case
\* sensitive, so both spellings of each phrase are present.
StderrFragments ==
    {"cat: /path/1: No such file or directory\n",
     "cat: /path/2: permission denied\n",
     "cat: /path/2: Permission denied\n",
     "cat: no such file\n"}

RECURSIVE ConcatAll(_)
ConcatAll(parts) ==
    IF parts = <<>> THEN "" ELSE Head(parts) \o ConcatAll(Tail(parts))

StderrTexts == {ConcatAll(p) : p \in SeqsUpTo(StderrFragments, MaxStderrParts)}

StdoutTexts == {"", "one\ntwo\n", "no newline at end"}

\* What the child wrote to a pipe: the text, and whether the bytes decode.
ByteStrings(texts) == [bytes : texts, utf8 : BOOLEAN]

\* Everything Command::output() can come back with.
OsOutcomes ==
    [kind : {"spawn_err"},
     errkind : {"NotFound", "PermissionDenied", "WouldBlock"},
     errtext : {"os error"}]
    \cup
    [kind : {"output"},
     success : BOOLEAN,
     stdout : ByteStrings(StdoutTexts),
     stderr : ByteStrings(StderrTexts)]

(***************************************************************************)
(* cli/output.rs                                                           *)
(***************************************************************************)

NO_ARGS_ERR == "Not enough arguments!"

USAGE ==
    "USAGE: rcat [OPTIONS] [ARGEMNTS]\n\n  A simple cat program.\n\nEXAMPLES:\n  rcat --help\n  rcat /path/to/file1 /path/to/file2 ...\n\nOPTIONS:\n  -h, --help      Display this help.\n\nARGUMENTS:\n  /path/to/file1  A path to a file.\n  /path/to/file2  A path to another file.\n  ...             Ditto.\n\n"

\* [String]::join
RECURSIVE join(_, _)
join(strs, sep) ==
    IF strs = <<>> THEN ""
    ELSE IF Len(strs) = 1 THEN Head(strs)
    ELSE Head(strs) \o sep \o join(Tail(strs), sep)

invalid_opts_err_nospace(opts) ==
    "Unrecognized option(s): " \o join(opts, ",") \o "\nSee rcat --help"

invalid_opts_err(opts) ==
    "Unrecognized option(s): " \o join(opts, ", ") \o "\nSee rcat --help"

(***************************************************************************)
(* cli/args.rs                                                             *)
(***************************************************************************)

\* str::starts_with
starts_with(x, prefix) ==
    /\ Len(x) >= Len(prefix)
    /\ SubSeq(x, 1, Len(prefix)) = prefix

\* Vec::contains
vec_contains(vec, x) == \E i \in 1..Len(vec) : vec[i] = x

make_config(paths) == [filepaths |-> paths]

filepaths(config) == config.filepaths

tail_whole(vec) == vec

\* vec[1..].to_vec(); parse only calls it on a vector of length >= 2.
tail(vec) == SubSeq(vec, 2, Len(vec))

contains_help(args) == vec_contains(args, "-h") \/ vec_contains(args, "--help")

IsInvalidOption(x) == starts_with(x, "-") /\ x # "-h" /\ x # "--help"

IsInvalidOptionLong(x) == IsInvalidOption(x) /\ Len(x) > 1

invalid_options_long(args) == SelectSeq(args, IsInvalidOptionLong)

\* Vec::retain keeps the matching elements in their order.
invalid_options(args) == SelectSeq(args, IsInvalidOption)

ParseOk(config) == [tag |-> "Ok", config |-> config]

ParseErr(tag, msg) == [tag |-> tag, msg |-> msg]

\* parse with the invalid-option check moved before the help check.
parse_invalid_first(args) ==
    IF Len(args) < 2 THEN ParseErr("NoArgs", NO_ARGS_ERR)
    ELSE IF Len(invalid_options(args)) > 0
        THEN ParseErr("InvalidOpts", invalid_opts_err(invalid_options(args)))
    ELSE IF contains_help(args) THEN ParseErr("Help", USAGE)
    ELSE ParseOk(make_config(tail(args)))

\* parse with the help check moved before the length check.
parse_help_first(args) ==
    IF contains_help(args) THEN ParseErr("Help", USAGE)
    ELSE IF Len(args) < 2 THEN ParseErr("NoArgs", NO_ARGS_ERR)
    ELSE IF Len(invalid_options(args)) > 0
        THEN ParseErr("InvalidOpts", invalid_opts_err(invalid_options(args)))
    ELSE ParseOk(make_config(tail(args)))

\* parse with the length check off by one.
parse_len_lt_1(args) ==
    IF Len(args) < 1 THEN ParseErr("NoArgs", NO_ARGS_ERR)
    ELSE IF contains_help(args) THEN ParseErr("Help", USAGE)
    ELSE IF Len(invalid_options(args)) > 0
        THEN ParseErr("InvalidOpts", invalid_opts_err(invalid_options(args)))
    ELSE ParseOk(make_config(tail(args)))

parse(args) ==
    IF Len(args) < 2 THEN ParseErr("NoArgs", NO_ARGS_ERR)
    ELSE IF contains_help(args) THEN ParseErr("Help", USAGE)
    ELSE IF Len(invalid_options(args)) > 0
        THEN ParseErr("InvalidOpts", invalid_opts_err(invalid_options(args)))
    ELSE ParseOk(make_config(tail(args)))

(***************************************************************************)
(* app/cmd.rs                                                              *)
(***************************************************************************)

\* str::contains
contains(data, pat) ==
    \E i \in 0..(Len(data) - Len(pat)) : SubSeq(data, i + 1, i + Len(pat)) = pat

make_execution(out) == [stdout |-> out]

stdout(execution) == execution.stdout

ExecOk(execution) == [tag |-> "Ok", execution |-> execution]

ExecErr(tag, msg) == [tag |-> tag, msg |-> msg]

\* String::from_utf8(..).unwrap() on bytes that do not decode: the thread
\* panics and exec returns nothing.
ExecPanic == [tag |-> "Panic"]

\* The backquote of the two format! strings; a TLA+ string cannot hold that
\* character, so an apostrophe stands for it.
BQ == "'"

\* exec with the two stderr tests in the opposite order.
exec_perm_first(prog, args, os) ==
    IF os.kind = "spawn_err" THEN
        CASE os.errkind = "NotFound" ->
                ExecErr("NoProg", "No " \o BQ \o prog \o BQ \o " program found on your machine")
          [] os.errkind = "PermissionDenied" ->
                ExecErr("NoPerm", "No permission to execute " \o BQ \o prog \o BQ)
          [] OTHER -> ExecErr("Other", os.errtext)
    ELSE IF os.success THEN
        IF os.stdout.utf8 THEN ExecOk(make_execution(os.stdout.bytes))
        ELSE ExecPanic
    ELSE
        IF ~os.stderr.utf8 THEN ExecPanic
        ELSE IF contains(os.stderr.bytes, "permission denied")
            THEN ExecErr("NoPerm", os.stderr.bytes)
        ELSE IF contains(os.stderr.bytes, "No such file")
            THEN ExecErr("NoFile", os.stderr.bytes)
        ELSE ExecErr("Other", os.stderr.bytes)

\* os is what Command::new(prog).args(args).output() came back with.
exec(prog, args, os) ==
    IF os.kind = "spawn_err" THEN
        CASE os.errkind = "NotFound" ->
                ExecErr("NoProg", "No " \o BQ \o prog \o BQ \o " program found on your machine")
          [] os.errkind = "PermissionDenied" ->
                ExecErr("NoPerm", "No permission to execute " \o BQ \o prog \o BQ)
          [] OTHER -> ExecErr("Other", os.errtext)
    ELSE IF os.success THEN
        IF os.stdout.utf8 THEN ExecOk(make_execution(os.stdout.bytes))
        ELSE ExecPanic
    ELSE
        IF ~os.stderr.utf8 THEN ExecPanic
        ELSE IF contains(os.stderr.bytes, "No such file")
            THEN ExecErr("NoFile", os.stderr.bytes)
        ELSE IF contains(os.stderr.bytes, "permission denied")
            THEN ExecErr("NoPerm", os.stderr.bytes)
        ELSE ExecErr("Other", os.stderr.bytes)

(***************************************************************************)
(* app/handler.rs                                                          *)
(***************************************************************************)

\* The program handler::run asks the OS for.
HandlerProg == "cat"

\* The match in handler::run: every Error variant is reduced to its message.
run_message(result) ==
    IF result.tag = "Ok" THEN stdout(result.execution) ELSE result.msg

(***************************************************************************)
(* main.rs: the state of one run of the entry point.                       *)
(***************************************************************************)

VARIABLES
    raw_args,       \* env::args().collect()
    pc,             \* "start", "parsed", "ran" or "exited"
    parse_result,   \* what args::parse returned
    os,             \* what the OS returned for the spawn
    spawned,        \* the <<prog, args>> pairs handed to Command, in order
    exec_result,    \* what cmd::exec returned (or that it panicked)
    run_result,     \* the String handler::run returned
    writes,         \* number of print! calls main made
    stdout_out,     \* what the process wrote to its standard output
    stderr_out,     \* what the process wrote to its standard error
    exit_code       \* the exit status, -1 while running

vars == <<raw_args, pc, parse_result, os, spawned, exec_result, run_result,
          writes, stdout_out, stderr_out, exit_code>>

None == [tag |-> "None"]

Init ==
    /\ raw_args \in ArgLists
    /\ pc = "start"
    /\ parse_result = None
    /\ os = [kind |-> "none"]
    /\ spawned = <<>>
    /\ exec_result = None
    /\ run_result = ""
    /\ writes = 0
    /\ stdout_out = ""
    /\ stderr_out = ""
    /\ exit_code = -1

\* main.rs:16
Parse ==
    /\ pc = "start"
    /\ parse_result' = parse(raw_args)
    /\ pc' = "parsed"
    /\ UNCHANGED <<raw_args, os, spawned, exec_result, run_result, writes,
                   stdout_out, stderr_out, exit_code>>

\* main.rs:21-27 with exit::exit_with_err
ExitWithErr ==
    /\ pc = "parsed"
    /\ parse_result.tag \in {"Help", "NoArgs", "InvalidOpts"}
    /\ stderr_out' = stderr_out \o "Error: " \o parse_result.msg \o "\n"
    /\ exit_code' = 1
    /\ pc' = "exited"
    /\ UNCHANGED <<raw_args, parse_result, os, spawned, exec_result,
                   run_result, writes, stdout_out>>

\* main.rs:29-30 with handler::run and cmd::exec.  A panic in exec unwinds
\* through run and main: the runtime reports it on standard error and the
\* process ends with status 101.
Run ==
    /\ pc = "parsed"
    /\ parse_result.tag = "Ok"
    /\ \E o \in OsOutcomes :
        LET paths == filepaths(parse_result.config)
            result == exec(HandlerProg, paths, o)
        IN  /\ os' = o
            /\ spawned' = Append(spawned, <<HandlerProg, paths>>)
            /\ exec_result' = result
            /\ IF result.tag = "Panic"
                  THEN /\ pc' = "exited"
                       /\ exit_code' = 101
                       /\ stderr_out' = stderr_out \o "thread 'main' panicked"
                       /\ UNCHANGED run_result
                  ELSE /\ pc' = "ran"
                       /\ run_result' = run_message(result)
                       /\ UNCHANGED <<exit_code, stderr_out>>
    /\ UNCHANGED <<raw_args, parse_result, writes, stdout_out>>

\* WriteResult, but going back to run the handler again.
WriteResultAndRetry ==
    /\ pc = "ran"
    /\ Len(spawned) < 3
    /\ stdout_out' = stdout_out \o run_result
    /\ writes' = writes + 1
    /\ pc' = "parsed"
    /\ UNCHANGED <<raw_args, parse_result, os, spawned, exec_result,
                   run_result, stderr_out, exit_code>>

\* main.rs:31 and the return from main
WriteResult ==
    /\ pc = "ran"
    /\ stdout_out' = stdout_out \o run_result
    /\ writes' = writes + 1
    /\ exit_code' = 0
    /\ pc' = "exited"
    /\ UNCHANGED <<raw_args, parse_result, os, spawned, exec_result,
                   run_result, stderr_out>>

Next == Parse \/ ExitWithErr \/ Run \/ WriteResult

Spec == Init /\ [][Next]_vars

(***************************************************************************)
(* Vocabulary of the properties.                                           *)
(***************************************************************************)

ParseErrTags == {"Help", "NoArgs", "InvalidOpts"}

ExecErrTags == {"NoProg", "NoFile", "NoPerm", "Other"}

Parsed == pc # "start"

Exited == pc = "exited"

HasToken(args, t) == t \in {args[i] : i \in DOMAIN args}

HasHelpFlag(args) == HasToken(args, "-h") \/ HasToken(args, "--help")

\* A token that begins with a dash and is neither help flag.
DashOther(t) == Len(t) >= 1 /\ SubSeq(t, 1, 1) = "-" /\ t \notin {"-h", "--help"}

DashOtherAt(args) == {i \in DOMAIN args : DashOther(args[i])}

\* The DashOther tokens of args from position i on, in their order.
RECURSIVE DashOthersFrom(_, _)
DashOthersFrom(args, i) ==
    IF i > Len(args) THEN <<>>
    ELSE IF DashOther(args[i]) THEN <<args[i]>> \o DashOthersFrom(args, i + 1)
    ELSE DashOthersFrom(args, i + 1)

\* The tokens of a non-empty list written one after the other, ", " between.
RECURSIVE CommaSeparated(_)
CommaSeparated(toks) ==
    IF Len(toks) = 1 THEN toks[1]
    ELSE CommaSeparated(SubSeq(toks, 1, Len(toks) - 1)) \o ", " \o toks[Len(toks)]

\* s without its first element, position by position.
IsDropFirst(t, s) ==
    /\ Len(t) = Len(s) - 1
    /\ \A i \in 1..Len(t) : t[i] = s[i + 1]

ChildFailed == Len(spawned) >= 1 /\ os.kind = "output" /\ ~os.success

(***************************************************************************)
(* C1.  The exit code is 0 exactly when the content was retrieved and      *)
(* printed, 1 on every parse error and 1 on every execution error that     *)
(* the process invoker returned.                                           *)
(***************************************************************************)
C1_ExitCodeContract ==
    Exited =>
        /\ (exit_code = 0) <=> (exec_result.tag = "Ok" /\ writes = 1)
        /\ parse_result.tag \in ParseErrTags => exit_code = 1
        /\ exec_result.tag \in ExecErrTags => exit_code = 1

(***************************************************************************)
(* C2.  On every parse error and every execution error standard error      *)
(* carries the line "Error: " followed by the message; on success standard *)
(* output carries exactly the child's captured output.                     *)
(***************************************************************************)
C2_StreamContract ==
    Exited =>
        /\ parse_result.tag \in ParseErrTags =>
              stderr_out = "Error: " \o parse_result.msg \o "\n"
        /\ exec_result.tag \in ExecErrTags =>
              stderr_out = "Error: " \o exec_result.msg \o "\n"
        /\ exec_result.tag = "Ok" =>
              /\ stdout_out = os.stdout.bytes
              /\ stderr_out = ""

(***************************************************************************)
(* C3.  An argument list of length >= 2 that holds -h or --help parses to  *)
(* Help with the usage text, whatever else it holds and wherever the flag  *)
(* stands.                                                                 *)
(***************************************************************************)
C3_HelpPrecedence ==
    (Parsed /\ Len(raw_args) >= 2 /\ HasHelpFlag(raw_args)) =>
        parse_result = [tag |-> "Help", msg |-> USAGE]

\* A help flag standing after an unrecognized option was parsed to Help.
C3_Witness ==
    /\ Parsed
    /\ \E i, j \in DOMAIN raw_args :
          i < j /\ DashOther(raw_args[i]) /\ raw_args[j] \in {"-h", "--help"}
    /\ parse_result.tag = "Help"

(***************************************************************************)
(* C4 as stated.  An argument list of length >= 2 holding a dash token     *)
(* other than -h/--help parses to InvalidOptions, the message listing      *)
(* exactly those tokens in order, ", " between.                            *)
(***************************************************************************)
C4_Original ==
    (Parsed /\ Len(raw_args) >= 2 /\ DashOtherAt(raw_args) # {}) =>
        parse_result =
            [tag |-> "InvalidOpts",
             msg |-> "Unrecognized option(s): "
                     \o CommaSeparated(DashOthersFrom(raw_args, 1))
                     \o "\nSee rcat --help"]

(***************************************************************************)
(* C4 amended.  The same, for argument lists that hold neither -h nor      *)
(* --help.                                                                 *)
(***************************************************************************)
C4_InvalidOptions ==
    (/\ Parsed
     /\ Len(raw_args) >= 2
     /\ ~HasHelpFlag(raw_args)
     /\ DashOtherAt(raw_args) # {}) =>
        parse_result =
            [tag |-> "InvalidOpts",
             msg |-> "Unrecognized option(s): "
                     \o CommaSeparated(DashOthersFrom(raw_args, 1))
                     \o "\nSee rcat --help"]

\* Two different unrecognized options were reported.
C4_Witness ==
    /\ Parsed
    /\ \E i, j \in DashOtherAt(raw_args) : i < j /\ raw_args[i] # raw_args[j]
    /\ parse_result.tag = "InvalidOpts"

(***************************************************************************)
(* C5.  An argument list of length < 2 parses to NoArguments with the      *)
(* message "Not enough arguments!", whatever its one element is.           *)
(***************************************************************************)
C5_NoArguments ==
    (Parsed /\ Len(raw_args) < 2) =>
        parse_result = [tag |-> "NoArgs", msg |-> "Not enough arguments!"]

\* A lone help flag was parsed to NoArguments.
C5_Witness ==
    /\ Parsed
    /\ Len(raw_args) = 1
    /\ raw_args[1] \in {"-h", "--help"}
    /\ parse_result.tag = "NoArgs"

(***************************************************************************)
(* C6.  An argument list of length >= 2 with no help flag and no other     *)
(* dash token parses successfully to the list without its first element.   *)
(***************************************************************************)
C6_ParseSuccess ==
    (/\ Parsed
     /\ Len(raw_args) >= 2
     /\ ~HasHelpFlag(raw_args)
     /\ DashOtherAt(raw_args) = {}) =>
        /\ parse_result.tag = "Ok"
        /\ IsDropFirst(parse_result.config.filepaths, raw_args)

\* A list naming the same path twice was parsed, both copies kept.
C6_Witness ==
    /\ Parsed
    /\ Len(raw_args) = 3
    /\ raw_args[2] = raw_args[3]
    /\ raw_args[1] # raw_args[2]
    /\ parse_result.tag = "Ok"
    /\ Len(parse_result.config.filepaths) = 2

(***************************************************************************)
(* C7.  When the child ran and exited non-zero, exec's error is FileNotFound*)
(* if stderr holds "No such file" (also when it holds "permission denied"  *)
(* as well), else PermissionDenied if it holds "permission denied", else   *)
(* Other, and the message is the whole stderr text.                        *)
(***************************************************************************)
C7_StderrClassification ==
    (ChildFailed /\ exec_result.tag # "Panic") =>
        LET text == os.stderr.bytes
            nofile == contains(text, "No such file")
            noperm == contains(text, "permission denied")
        IN  /\ exec_result.tag \in {"NoFile", "NoPerm", "Other"}
            /\ exec_result.msg = text
            /\ nofile => exec_result.tag = "NoFile"
            /\ (~nofile /\ noperm) => exec_result.tag = "NoPerm"
            /\ (~nofile /\ ~noperm) => exec_result.tag = "Other"

\* A stderr that holds both phrases was classified FileNotFound.
C7_Witness ==
    /\ ChildFailed
    /\ os.stderr.utf8
    /\ contains(os.stderr.bytes, "No such file")
    /\ contains(os.stderr.bytes, "permission denied")
    /\ exec_result.tag = "NoFile"

(***************************************************************************)
(* C8.  A configuration returned by a successful parse holds at least one  *)
(* file path.                                                              *)
(***************************************************************************)
C8_ConfigNonEmpty ==
    parse_result.tag = "Ok" => Len(filepaths(parse_result.config)) >= 1

\* The shortest list that parses: the program name and one path.
C8_Witness ==
    /\ parse_result.tag = "Ok"
    /\ Len(raw_args) = 2
    /\ Len(filepaths(parse_result.config)) = 1

C10_ForwardedArguments ==
    \A k \in DOMAIN spawned :
        /\ spawned[k][1] = "cat"
        /\ IsDropFirst(spawned[k][2], raw_args)
        /\ \A i \in DOMAIN spawned[k][2] :
              ~(Len(spawned[k][2][i]) >= 1 /\ SubSeq(spawned[k][2][i], 1, 1) = "-")

\* Two arguments, one of them the empty string, were forwarded to cat.
C10_Witness ==
    /\ Len(spawned) = 1
    /\ Len(spawned[1][2]) = 2
    /\ \E i \in 1..2 : spawned[1][2][i] = ""

====
